---- MODULE Spec2Model ----
(***************************************************************************)
(* SMAStrategy (src/app.py): a two-instrument moving-average crossover     *)
(* strategy driven by a backtrader engine.  datas[0] is VTI (instrument A) *)
(* and datas[1] is TLT (instrument B).  The engine delivers bars (prenext  *)
(* until every indicator has a value, next afterwards) and order-status    *)
(* notifications (notify_order, followed by notify_trade when a fill opens *)
(* or closes a trade).                                                     *)
(***************************************************************************)
EXTENDS Integers, Sequences, FiniteSets, TLC

\* ---- bounds of the model ----
MaxBars == 23        \* bars delivered in one run
MaxVal == 3          \* the fast moving averages range over 1..MaxVal
MaxPrice == 2        \* fill prices range over 1..MaxPrice
ConfigBars == 3      \* bars delivered in a run with other parameters

\* ---- program constants ----
fast_period == 10
slow_period_AsFast == fast_period
slow_period == 20
stake == 1
commission == 25     \* 0.0025, in units of 1/10000

None == 0            \* Python None: no order / no recorded price
NaN == 0             \* value of an indicator line before its window is filled

VTI == 0
TLT == 1
Datas == {VTI, TLT}

\* The strategy only compares the fast and the slow average of one data on
\* one bar, so bars are drawn with each slow average at the middle level and
\* each fast average anywhere in 1..MaxVal: below, at or above it.
Values == 1..MaxVal
SlowValues == {(MaxVal + 1) \div 2}
Prices == 1..MaxPrice

Max(a, b) == IF a > b THEN a ELSE b

\* Order statuses the broker can report for an order created without a
\* validity date (such an order never expires).
NonTerminal == {"Submitted", "Accepted", "Partial"}
Rejections == {"Canceled", "Margin", "Rejected"}
Terminal == {"Completed"} \cup Rejections
Statuses == NonTerminal \cup Terminal

\* ---- comparisons on indicator lines: every comparison with NaN is false ----
Gt(a, b) == a # NaN /\ b # NaN /\ a > b
Lt(a, b) == a # NaN /\ b # NaN /\ a < b
Ge(a, b) == a # NaN /\ b # NaN /\ a >= b
Le(a, b) == a # NaN /\ b # NaN /\ a <= b

\* f0, s0: fast[0], slow[0]; f1, s1: fast[-1], slow[-1]
BullishCross_Strict(f0, s0, f1, s1) == Gt(f0, s0) /\ Lt(f1, s1)
BullishCross(f0, s0, f1, s1) == Gt(f0, s0) /\ Le(f1, s1)
BearishCross(f0, s0, f1, s1) == Lt(f0, s0) /\ Ge(f1, s1)

Classify(f0, s0, f1, s1) ==
    IF BullishCross(f0, s0, f1, s1) THEN "BullishCross"
    ELSE IF BearishCross(f0, s0, f1, s1) THEN "BearishCross"
    ELSE "None"

\* Value of an SMA line of the given period once n bars have been delivered.
\* The indicator does not check its period; what it computes over a negative
\* window is left open (any value).
SMA(period, n, v) == IF n >= period THEN v ELSE NaN

\* ---- order intents ----
Buy(d) == [data |-> d, isbuy |-> TRUE]
Sell(d) == [data |-> d, isbuy |-> FALSE]

\* `if self.order:`
Pending_Never(ord) == FALSE
Pending(ord) == ord # None

\* `self.position` is the position of datas[0]; it is true when its size # 0
InMarket(pos) == pos[VTI] # 0

\* The entry branch of next(): VTI is tested first, TLT in the elif.
Entry_TLTFirst(f0, s0, f1, s1) ==
    IF BullishCross(f0[TLT], s0[TLT], f1[TLT], s1[TLT]) THEN <<Buy(TLT)>>
    ELSE IF BullishCross(f0[VTI], s0[VTI], f1[VTI], s1[VTI]) THEN <<Buy(VTI)>>
    ELSE <<>>
Entry(f0, s0, f1, s1) ==
    IF BullishCross(f0[VTI], s0[VTI], f1[VTI], s1[VTI]) THEN <<Buy(VTI)>>
    ELSE IF BullishCross(f0[TLT], s0[TLT], f1[TLT], s1[TLT]) THEN <<Buy(TLT)>>
    ELSE <<>>

\* The exit branch of next().
Exit(pos, f0, s0, f1, s1) ==
    IF pos[VTI] > 0
    THEN IF BearishCross(f0[VTI], s0[VTI], f1[VTI], s1[VTI])
         THEN <<Sell(VTI)>> ELSE <<>>
    ELSE IF pos[TLT] > 0
    THEN IF BearishCross(f0[TLT], s0[TLT], f1[TLT], s1[TLT])
         THEN <<Sell(TLT)>> ELSE <<>>
    ELSE <<>>

\* The order intents one call of next() emits.
NextIntents(ord, pos, f0, s0, f1, s1) ==
    IF Pending(ord) THEN <<>>
    ELSE IF ~InMarket(pos) THEN Entry(f0, s0, f1, s1)
    ELSE Exit(pos, f0, s0, f1, s1)

CreateLog(it) ==
    IF it.isbuy
    THEN (IF it.data = VTI THEN "BUY VTI CREATE" ELSE "BUY TLT CREATE")
    ELSE (IF it.data = VTI THEN "SELL VTI CREATE" ELSE "SELL TLT CREATE")

VARIABLES
    params,       \* self.params: fast_period and slow_period
    buflen,       \* engine: number of bars in the data feeds
    len,          \* len(self): bars delivered so far
    fast, slow,   \* current values of the fast and slow SMA of each data
    signal,       \* crossover classification of the current bar, per data
    position,     \* broker: size held of each data
    orders,       \* broker: orders that have not reached a terminal status
    lastref,      \* broker: reference of the last order created
    order,        \* self.order: reference of the tracked order, or None
    buyprice, buycomm, bar_executed,
    called,       \* the callback that ran last, with its arguments
    emitted,      \* order intents emitted by the last callback
    logged,       \* log entries written by the last callback
    phase,        \* progress of the current entry/exit round trip on VTI
    recov,        \* progress of the recovery from a rejected VTI entry
    exitrec,      \* progress of the recovery from a rejected exit
    exits,        \* open orders that are a sell of X emitted from Holding(X)
    twin          \* a second run over the same bars and order outcomes,
                  \* told other execution prices (when twin.on)

vars == <<params, buflen, len, fast, slow, signal, position, orders, lastref, order,
          buyprice, buycomm, bar_executed, called, emitted, logged,
          phase, recov, exitrec, exits, twin>>

\* Minimum period of the strategy: the largest minimum period of its
\* indicators.  An SMA needs `period` bars, and each CrossOver built on the
\* two SMAs looks one bar back, so it needs one bar more.
MinPeriod == Max(params.fast_period, params.slow_period) + 1

Flat == order = None /\ position = [d \in Datas |-> 0]
Holding(d) == order = None /\ position[d] > 0
                 /\ \A e \in Datas \ {d} : position[e] = 0

\* The strategy as __init__ leaves it, before the first bar.
Constructed ==
    /\ len = 0
    /\ fast = [d \in Datas |-> NaN]
    /\ slow = [d \in Datas |-> NaN]
    /\ signal = [d \in Datas |-> "None"]
    /\ position = [d \in Datas |-> 0]
    /\ orders = {}
    /\ lastref = 0
    /\ order = None
    /\ buyprice = None
    /\ buycomm = None
    /\ bar_executed = None
    /\ called = [op |-> "__init__", status |-> "", ref |-> None]
    /\ emitted = <<>>
    /\ logged = <<>>
    /\ phase = "Off"
    /\ recov = "Off"
    /\ exitrec = "Off"
    /\ exits = {}

\* The attributes of the second run as __init__ leaves them.
Twin(on) ==
    [on |-> on, order |-> None, buyprice |-> None, buycomm |-> None,
     emitted |-> <<>>]

\* The run of main(): the default parameters, feeds of MaxBars bars.
Init ==
    /\ params = [fast_period |-> fast_period, slow_period |-> slow_period]
    /\ buflen = MaxBars
    /\ twin = Twin(FALSE)
    /\ Constructed

\* The engine moves both datas and the four SMA lines one bar forward.
Forward(nf, ns) ==
    /\ len < buflen
    /\ len' = len + 1
    /\ fast' = [d \in Datas |-> SMA(params.fast_period, len + 1, nf[d])]
    /\ slow' = [d \in Datas |-> SMA(params.slow_period, len + 1, ns[d])]
    /\ UNCHANGED <<params, buflen>>
    /\ signal' = [d \in Datas |->
                     Classify(fast'[d], slow'[d], fast[d], slow[d])]

\* A bar before the minimum period: the engine calls prenext(), which the
\* strategy does not override.
prenext(nf, ns) ==
    /\ Forward(nf, ns)
    /\ len + 1 < MinPeriod
    /\ called' = [op |-> "prenext", status |-> "", ref |-> None]
    /\ emitted' = <<>>
    /\ logged' = <<>>
    /\ UNCHANGED <<position, orders, lastref, order, buyprice, buycomm,
                   bar_executed, phase, recov, exitrec, exits, twin>>

\* Round-trip tracking across a call of next().
PhaseAfterNext(its) ==
    IF Flat /\ its = <<Buy(VTI)>> THEN "AwaitingEntry"
    ELSE IF phase \in {"AwaitingEntry", "AwaitingExit"} THEN phase
    ELSE IF phase = "Holding" /\ its = <<>> THEN "Holding"
    ELSE IF phase = "Holding" /\ its = <<Sell(VTI)>> THEN "AwaitingExit"
    ELSE "Off"

\* Tracking of a rejected exit across a call of next(): "Sent" from the sell
\* of X emitted while Holding(X), "Rejected" from its rejection on, as long
\* as nothing else happens.
ExitAfterNext(its) ==
    IF \E X \in Datas : Holding(X) /\ its = <<Sell(X)>> THEN "Sent"
    ELSE IF exitrec \in {"Sent", "Rejected"} /\ its = <<>> THEN exitrec
    ELSE "Off"

\* The attributes of the strategy object that a callback can read.
Self ==
    [order |-> order, buyprice |-> buyprice, buycomm |-> buycomm,
     bar_executed |-> bar_executed]

TwinSelf ==
    [order |-> twin.order, buyprice |-> twin.buyprice,
     buycomm |-> twin.buycomm, bar_executed |-> bar_executed]

\* next(): what it decides from the strategy object, the positions and the
\* moving averages of this bar and the one before.
Decide_StopLoss(self, pos, f0, s0, f1, s1) ==
    IF ~Pending(self.order) /\ pos[VTI] > 0 /\ self.buyprice > 1
    THEN <<Sell(VTI)>>
    ELSE NextIntents(self.order, pos, f0, s0, f1, s1)
Decide(self, pos, f0, s0, f1, s1) ==
    NextIntents(self.order, pos, f0, s0, f1, s1)

\* A bar from the minimum period on: the engine calls next().
next(nf, ns) ==
    /\ Forward(nf, ns)
    /\ len + 1 >= MinPeriod
    /\ LET its == Decide(Self, position, fast', slow', fast, slow)
           its2 == Decide(TwinSelf, position, fast', slow', fast, slow)
       IN /\ emitted' = its
          /\ twin' = IF ~twin.on THEN twin
                     ELSE [twin EXCEPT !.emitted = its2,
                                       !.order = IF its2 = <<>> THEN @
                                                 ELSE lastref + 1]
          /\ logged' = <<"CLOSE">> \o [i \in 1..Len(its) |-> CreateLog(its[i])]
          /\ IF its = <<>>
             THEN UNCHANGED <<orders, lastref, order>>
             ELSE /\ lastref' = lastref + 1
                  /\ order' = lastref + 1
                  /\ orders' = orders \cup
                        {[ref |-> lastref + 1, data |-> its[1].data,
                          isbuy |-> its[1].isbuy]}
          /\ phase' = PhaseAfterNext(its)
          /\ recov' = IF recov = "Rejected" THEN "Retried" ELSE "Off"
          /\ exitrec' = ExitAfterNext(its)
          /\ exits' = IF \E X \in Datas : Holding(X) /\ its = <<Sell(X)>>
                       THEN exits \cup {lastref + 1} ELSE exits
    /\ called' = [op |-> "next", status |-> "", ref |-> None]
    /\ UNCHANGED <<position, buyprice, buycomm, bar_executed>>

\* notify_order: the statuses after which `self.order = None` is reached.
ResetsOrder_Never(status) == FALSE
ResetsOrder_OnlyCompleted(status) == status = "Completed"
ResetsOrder(status) == status \notin {"Submitted", "Accepted"}

\* notify_order: the log entries written for a status.
OrderLog_Silent(status, isbuy) ==
    IF status = "Completed"
    THEN (IF isbuy THEN <<"BUY EXECUTED">> ELSE <<"SELL EXECUTED">>)
    ELSE <<>>
OrderLog(status, isbuy) ==
    IF status = "Completed"
    THEN (IF isbuy THEN <<"BUY EXECUTED">> ELSE <<"SELL EXECUTED">>)
    ELSE IF status \in Rejections THEN <<"Order Canceled/Margin/Rejected">>
    ELSE <<>>

\* notify_trade: the log entries written for a trade.
notify_trade_Always(isclosed) == <<"OPERATION PROFIT">>
notify_trade(isclosed) ==
    IF ~isclosed THEN <<>> ELSE <<"OPERATION PROFIT">>

\* Broker: commission charged on a fill of `stake` units at `price`.
Comm(price) == price * stake * commission

\* Broker: size of a data after an order on it is completed.
Fill(size, isbuy) == IF isbuy THEN size + stake ELSE size - stake

\* Engine: the trades it notifies after a fill moved a size from `old` to
\* `new`: the trade just opened (isclosed false) or just closed (true).
TradeEvents(old, new) ==
    IF old = 0 /\ new # 0 THEN <<FALSE>>
    ELSE IF old # 0 /\ new = 0 THEN <<TRUE>>
    ELSE <<>>

TradeLog(evs) ==
    IF evs = <<>> THEN <<>> ELSE notify_trade(evs[1])

\* Round-trip tracking across a notification.
PhaseAfterNotify(o, status) ==
    IF o.ref # order THEN "Off"
    ELSE IF status \in {"Submitted", "Accepted"} THEN phase
    ELSE IF status = "Completed" /\ phase = "AwaitingEntry" THEN "Holding"
    ELSE IF status = "Completed" /\ phase = "AwaitingExit" THEN "Closed"
    ELSE "Off"

\* Tracking of a rejected exit across a notification.
ExitAfterNotify(o, status) ==
    IF exitrec # "Sent" \/ o.ref # order THEN "Off"
    ELSE IF status \in {"Submitted", "Accepted"} THEN "Sent"
    ELSE IF status \in Rejections THEN "Rejected"
    ELSE "Off"

\* order.executed.price: the fill price of a completed order, 0 before.
ExecutedPrices(status) == IF status = "Completed" THEN Prices ELSE {0}

\* The broker reports `status` for order o (filled at `price` when
\* Completed; a Partial report of a one-unit order fills nothing yet), the
\* engine calls notify_order and then notify_trade for a trade the fill
\* opened or closed.
notify_order(o, status, price) ==
    /\ o \in orders
    /\ LET newpos == IF status = "Completed"
                     THEN [position EXCEPT ![o.data] = Fill(@, o.isbuy)]
                     ELSE position
           evs == TradeEvents(position[o.data], newpos[o.data])
       IN /\ position' = newpos
          /\ logged' = OrderLog(status, o.isbuy) \o TradeLog(evs)
    /\ orders' = IF status \in Terminal THEN orders \ {o} ELSE orders
    /\ order' = IF ResetsOrder(status) THEN None ELSE order
    /\ buyprice' = IF status = "Completed" /\ o.isbuy THEN price ELSE buyprice
    /\ buycomm' = IF status = "Completed" /\ o.isbuy THEN Comm(price)
                  ELSE buycomm
    /\ bar_executed' = IF status = "Completed" THEN len ELSE bar_executed
    /\ called' = [op |-> "notify_order", status |-> status, ref |-> o.ref]
    /\ emitted' = <<>>
    /\ phase' = PhaseAfterNotify(o, status)
    /\ recov' = IF phase = "AwaitingEntry" /\ o.ref = order
                   /\ status \in Rejections
                THEN "Rejected" ELSE "Off"
    /\ exitrec' = ExitAfterNotify(o, status)
    /\ exits' = IF status \in Terminal THEN exits \ {o.ref} ELSE exits
    /\ IF ~twin.on THEN twin' = twin
       ELSE \E price2 \in ExecutedPrices(status) :
               twin' = [twin EXCEPT
                          !.emitted = <<>>,
                          !.order = IF ResetsOrder(status) THEN None ELSE @,
                          !.buyprice = IF status = "Completed" /\ o.isbuy
                                       THEN price2 ELSE @,
                          !.buycomm = IF status = "Completed" /\ o.isbuy
                                      THEN Comm(price2) ELSE @]
    /\ UNCHANGED <<params, buflen, len, fast, slow, signal, lastref>>

FastLines == [Datas -> Values]
SlowLines == [Datas -> SlowValues]

Next == \/ \E nf \in FastLines, ns \in SlowLines : prenext(nf, ns)
        \/ \E nf \in FastLines, ns \in SlowLines : next(nf, ns)
        \/ \E o \in orders, st \in Statuses :
              \E p \in ExecutedPrices(st) : notify_order(o, st, p)

Spec == Init /\ [][Next]_vars

\* Runs of a strategy added with other parameters: __init__ hands
\* fast_period and slow_period to the indicators as they are.  (A period of
\* 0 is left out: the average divides by it before the first bar is
\* evaluated.)
ConfigParams ==
    [fast_period : {-1, fast_period}, slow_period : {-1, slow_period}]

InitConfig ==
    /\ params \in ConfigParams
    /\ buflen = ConfigBars
    /\ twin = Twin(FALSE)
    /\ Constructed

SpecConfig == InitConfig /\ [][Next]_vars

\* A run of main() over feeds of one more bar, taken up after the first
\* call of next() bought VTI and the broker completed that order.
InitHeld ==
    /\ params = [fast_period |-> fast_period, slow_period |-> slow_period]
    /\ buflen = MaxBars + 1
    /\ len = MinPeriod
    /\ fast \in FastLines /\ slow \in SlowLines
    /\ fast[VTI] > slow[VTI]
    /\ signal \in [Datas -> {"None", "BullishCross", "BearishCross"}]
    /\ signal[VTI] = "BullishCross"
    /\ signal[TLT] = "BullishCross" => fast[TLT] > slow[TLT]
    /\ signal[TLT] = "BearishCross" => fast[TLT] < slow[TLT]
    /\ position = [d \in Datas |-> IF d = VTI THEN stake ELSE 0]
    /\ orders = {}
    /\ lastref = 1
    /\ order = None
    /\ buyprice \in Prices
    /\ buycomm = Comm(buyprice)
    /\ bar_executed = len
    /\ called = [op |-> "notify_order", status |-> "Completed", ref |-> 1]
    /\ emitted = <<>>
    /\ logged = <<"BUY EXECUTED">>
    /\ phase = "Holding"
    /\ recov = "Off"
    /\ exitrec = "Off"
    /\ exits = {}
    /\ twin = Twin(FALSE)

NextHeld ==
    \/ \E nf \in FastLines, ns \in SlowLines : next(nf, ns)
    \/ \E o \in orders, st \in Statuses :
          \E p \in ExecutedPrices(st) : notify_order(o, st, p)

SpecHeld == InitHeld /\ [][NextHeld]_vars

\* The engine delivers a terminal status for an open order.
Deliver ==
    \E o \in orders, st \in Terminal :
       \E p \in ExecutedPrices(st) : notify_order(o, st, p)

\* The run of SpecHeld with a broker that does not leave an open order
\* without a terminal status for ever.
SpecLive == InitHeld /\ [][NextHeld]_vars /\ WF_vars(Deliver)

\* The same run over bars whose VTI averages both range over 1..MaxVal (the
\* two TLT averages stay at the middle level).
CrossFast == {f \in FastLines : f[TLT] \in SlowValues}
CrossSlow == {s \in [Datas -> Values] : s[TLT] \in SlowValues}

NextCross ==
    \/ \E nf \in CrossFast, ns \in CrossSlow : prenext(nf, ns)
    \/ \E nf \in CrossFast, ns \in CrossSlow : next(nf, ns)
    \/ \E o \in orders, st \in Statuses :
          \E p \in ExecutedPrices(st) : notify_order(o, st, p)

SpecCross == Init /\ [][NextCross]_vars

\* Two runs of main() side by side over the same bars (those of NextCross)
\* and the same order statuses, each told its own execution prices.
InitPair ==
    /\ params = [fast_period |-> fast_period, slow_period |-> slow_period]
    /\ buflen = MaxBars
    /\ twin = Twin(TRUE)
    /\ Constructed

SpecPair == InitPair /\ [][NextCross]_vars

\* ---------------------------------------------------------------------
\* Properties
\* ---------------------------------------------------------------------
IsNext == called.op = "next"
IsNotify == called.op = "notify_order"
NoPosition == [d \in Datas |-> 0]
Profits == {i \in 1..Len(logged) : logged[i] = "OPERATION PROFIT"}

\* C1: the holdings (size of VTI, size of TLT) are always one of (0,0),
\* (1,0), (0,1): never both instruments, never more than one unit.
C1_SinglePosition ==
    <<position[VTI], position[TLT]>> \in {<<0, 0>>, <<1, 0>>, <<0, 1>>}

\* C2: next() emits a buy only when Flat (no position in either instrument,
\* no pending order) and a sell of X only when Holding(X).
C2_IntentsOnlyFromState ==
    [][IsNext' =>
         \A i \in 1..Len(emitted') :
            IF emitted'[i].isbuy THEN Flat ELSE Holding(emitted'[i].data)]_vars

\* C3: a call of next() that starts with the pending marker set emits no
\* intent and leaves the marker unchanged; a call that starts with the
\* marker none emits at most one intent.
C3_PendingGating ==
    [][IsNext' =>
         IF order # None THEN emitted' = <<>> /\ order' = order
         ELSE Len(emitted') <= 1]_vars

\* C3 witness: next() ran with the marker set and emitted nothing.
C3_Witness == IsNext /\ order # None /\ emitted = <<>>

\* C4: the marker is set in the next() call that emits an intent; it goes
\* from set to none only in a notify_order call with a terminal status, and
\* a notification with a non-terminal status leaves it set.
C4_MarkerLifecycle ==
    [][/\ (IsNext' /\ emitted' # <<>>) => order' # None
       /\ (order = None /\ order' # None) => (IsNext' /\ emitted' # <<>>)
       /\ (order # None /\ order' = None) =>
             (IsNotify' /\ called'.status \in Terminal)
       /\ (IsNotify' /\ called'.status \in NonTerminal /\ order # None) =>
             order' = order]_vars

\* C5: at most one emitted order is short of a terminal status, and the
\* marker is set exactly when there is one.
C5_OneInFlight ==
    /\ Cardinality(orders) <= 1
    /\ (order # None) <=> (Cardinality(orders) = 1)

\* C6: for X in {VTI, TLT}, next() called while Holding(X) emits a sell of X
\* and sets the marker when X shows a bearish crossover, and otherwise emits
\* nothing and stays Holding(X).
C6_ExitRule ==
    [][\A X \in Datas :
         (IsNext' /\ Holding(X)) =>
            IF signal'[X] = "BearishCross"
            THEN emitted' = <<Sell(X)>> /\ order' # None
            ELSE emitted' = <<>> /\ order' = None /\ position' = position]_vars

\* C7: next() called while Flat with both instruments bullish emits exactly
\* one intent, a buy of VTI; while Flat it buys TLT only when TLT is bullish
\* and VTI is not.
C7_TieBreak ==
    [][(IsNext' /\ Flat) =>
         /\ (\A d \in Datas : signal'[d] = "BullishCross") =>
               emitted' = <<Buy(VTI)>>
         /\ emitted' = <<Buy(TLT)>> =>
               (signal'[TLT] = "BullishCross" /\ signal'[VTI] # "BullishCross")
         /\ emitted' \in {<<>>, <<Buy(VTI)>>, <<Buy(TLT)>>}]_vars

\* C7 witness: Flat, both instruments bullish on the bar, VTI bought.
C7_Witness ==
    /\ IsNext /\ position = NoPosition
    /\ \A d \in Datas : signal[d] = "BullishCross"
    /\ emitted = <<Buy(VTI)>>

\* C8: when a buy of VTI emitted from Flat is reported Canceled, Margin or
\* Rejected, the controller is Flat again (marker none, no position), and
\* the very next bar emits an entry intent exactly when it shows a bullish
\* crossover.
C8_EntryRejectionRecovery ==
    [][/\ recov' = "Rejected" => (order' = None /\ position' = NoPosition)
       /\ (recov = "Rejected" /\ IsNext') =>
             ((emitted' # <<>>) <=>
                 (\E d \in Datas : signal'[d] = "BullishCross"))
       /\ (recov = "Rejected" /\ IsNext') =>
             \A i \in 1..Len(emitted') : emitted'[i].isbuy]_vars

\* C8 witness: the bar right after the rejection emitted a new entry.
C8_Witness ==
    recov = "Retried" /\ emitted # <<>> /\ emitted[1].isbuy

\* C9: the round trip buy VTI, Completed, sell VTI, Completed passes through
\* AwaitingEntry, Holding and AwaitingExit and ends with marker none, no
\* position and the decisions of the initial state on every later bar; the
\* profit is logged once, by the notification that closes the trade.
C9_RoundTrip ==
    /\ phase = "AwaitingEntry" => (order # None /\ position = NoPosition)
    /\ phase = "Holding" => Holding(VTI)
    /\ phase = "AwaitingExit" =>
          (order # None /\ position = [NoPosition EXCEPT ![VTI] = stake])
    /\ phase \in {"AwaitingEntry", "Holding", "AwaitingExit"} => Profits = {}
    /\ phase = "Closed" =>
          /\ Flat
          /\ Cardinality(Profits) = 1
          /\ \A f0 \in FastLines, s0 \in SlowLines,
                f1 \in FastLines, s1 \in SlowLines :
                NextIntents(order, position, f0, s0, f1, s1)
                   = NextIntents(None, NoPosition, f0, s0, f1, s1)

\* C9 witness: a round trip was closed.
C9_Witness == phase = "Closed" /\ IsNotify /\ called.status = "Completed"

\* C10: with fast_period 10 and slow_period 20 no crossover is classified
\* and no intent is emitted on a bar whose 0-based index is below 19.
C10_InsufficientHistory ==
    (len >= 1 /\ len - 1 < 19) =>
        /\ emitted = <<>>
        /\ order = None
        /\ \A d \in Datas : signal[d] = "None"

\* C10 witness: bar 18 was delivered with the fast average defined and the
\* slow average not yet.
C10_Witness ==
    /\ len - 1 = 18
    /\ called.op = "prenext"
    /\ \A d \in Datas : fast[d] # NaN /\ slow[d] = NaN

\* C11: with both averages defined on two consecutive bars, the bar is
\* BullishCross exactly when fast[0] > slow[0] and fast[-1] <= slow[-1], and
\* BearishCross exactly when fast[0] < slow[0] and fast[-1] >= slow[-1];
\* the strategy buys VTI from Flat, and sells VTI when holding it with no
\* order pending, on exactly these bars.  After fast = 1, slow = 1 the bar
\* fast = 2, slow = 1 is BullishCross.
C11_Classification ==
    [][(len' = len + 1 /\ \A d \in Datas : fast[d] # NaN /\ slow[d] # NaN) =>
         /\ \A d \in Datas :
              /\ signal'[d] = "BullishCross" <=>
                    (fast'[d] > slow'[d] /\ fast[d] <= slow[d])
              /\ signal'[d] = "BearishCross" <=>
                    (fast'[d] < slow'[d] /\ fast[d] >= slow[d])
              /\ (fast[d] = 1 /\ slow[d] = 1 /\ fast'[d] = 2 /\ slow'[d] = 1)
                    => signal'[d] = "BullishCross"
         /\ (IsNext' /\ Flat) =>
               (emitted' = <<Buy(VTI)>> <=>
                   (fast'[VTI] > slow'[VTI] /\ fast[VTI] <= slow[VTI]))
         /\ (IsNext' /\ order = None /\ position[VTI] > 0) =>
               (emitted' = <<Sell(VTI)>> <=>
                   (fast'[VTI] < slow'[VTI] /\ fast[VTI] >= slow[VTI]))]_vars

\* C11 witness: the bar fast = 2, slow = 1 of VTI was classified BullishCross
\* and VTI was bought on it.
C11_Witness ==
    /\ IsNext /\ fast[VTI] = 2 /\ slow[VTI] = 1
    /\ signal[VTI] = "BullishCross"
    /\ emitted = <<Buy(VTI)>>

\* C12: a strategy with a non-positive fast_period or slow_period is never
\* constructed (construction fails), so next() never evaluates a bar under
\* a non-positive window length.
C12_FailFast ==
    [][IsNext' => (params.fast_period > 0 /\ params.slow_period > 0)]_vars

\* C13: next() emits a buy of X only on a bar where X shows a bullish
\* crossover and a sell of X only on a bar where X shows a bearish one; when
\* Flat with neither instrument bullish, or Holding(X) with X not bearish,
\* it emits nothing and the marker stays none.
C13_OnlyOnCrossovers ==
    [][IsNext' =>
         /\ \A i \in 1..Len(emitted') :
               signal'[emitted'[i].data] =
                  (IF emitted'[i].isbuy THEN "BullishCross" ELSE "BearishCross")
         /\ (Flat /\ \A d \in Datas : signal'[d] # "BullishCross") =>
               (emitted' = <<>> /\ order' = None)
         /\ \A X \in Datas :
               (Holding(X) /\ signal'[X] # "BearishCross") =>
                  (emitted' = <<>> /\ order' = None)]_vars


\* C14: rejection recovery for an exit, without automatic retry.  When
\* notify_order reports Canceled, Margin or Rejected for a sell of X that
\* next() emitted from Holding(X), the controller is back in Holding(X) with
\* the marker cleared; notify_order emits no order; and on the bars after
\* the rejection a sell of X is emitted only on a fresh bearish crossover of X.
C14_ExitRejectionRecovery ==
    [][/\ (IsNotify' /\ called'.status \in Rejections /\ called'.ref \in exits) =>
             \E o \in orders :
                /\ o.ref = called'.ref
                /\ order' = None
                /\ position'[o.data] > 0
                /\ \A e \in Datas \ {o.data} : position'[e] = 0
       /\ IsNotify' => (emitted' = <<>> /\ lastref' = lastref /\ orders' \subseteq orders)
       /\ (exitrec = "Rejected" /\ IsNext') =>
             \A i \in 1..Len(emitted') :
                ~emitted'[i].isbuy => signal'[emitted'[i].data] = "BearishCross"]_vars

\* C15: logged fill details do not influence decisions.  Two runs over the
\* same bars with the same order statuses and positions, told different
\* execution prices (so differing in buyprice and buycomm), emit the same
\* order intents at every callback and keep the same pending marker.
C15_FillDetailsUnread ==
    twin.on => (twin.emitted = emitted /\ twin.order = order)

\* The two runs bought at different prices and a later next() emitted an order.
C15_Witness ==
    /\ twin.on /\ IsNext /\ emitted # <<>>
    /\ buyprice # None /\ twin.buyprice # buyprice /\ twin.buycomm # buycomm

CreateEntries ==
    {"BUY VTI CREATE", "BUY TLT CREATE", "SELL VTI CREATE", "SELL TLT CREATE"}
ExecutedEntries == {"BUY EXECUTED", "SELL EXECUTED"}
RejectionEntries == {"Order Canceled/Margin/Rejected"}
ProfitEntries == {"OPERATION PROFIT"}
Count(log, entries) == Cardinality({i \in DOMAIN log : log[i] \in entries})

\* The engine can deliver the next bar.
BarEnabled ==
    ENABLED (\E nf \in FastLines, ns \in SlowLines :
                prenext(nf, ns) \/ next(nf, ns))

\* C16: logging follows the events one to one.  A call of next() logs one
\* CREATE entry per order intent it emits, the entry of that intent, and no
\* other callback logs a CREATE entry; a Completed notification logs exactly
\* one EXECUTED entry, a Canceled/Margin/Rejected one exactly one rejection
\* entry, any other status neither; a notification logs one profit entry
\* when its fill closed a trade and none when the trade is open or nothing
\* was filled; and after a rejection the run goes on while bars are left.
C16_LoggingOneToOne ==
    /\ [][/\ IsNext' =>
              /\ Count(logged', CreateEntries) = Len(emitted')
              /\ \A i \in 1..Len(emitted') :
                    logged'[i + 1] = CreateLog(emitted'[i])
          /\ ~IsNext' => Count(logged', CreateEntries) = 0
          /\ IsNotify' =>
              /\ Count(logged', ExecutedEntries) =
                    (IF called'.status = "Completed" THEN 1 ELSE 0)
              /\ Count(logged', RejectionEntries) =
                    (IF called'.status \in Rejections THEN 1 ELSE 0)
              /\ Count(logged', ProfitEntries) =
                    (IF \E d \in Datas : position[d] # 0 /\ position'[d] = 0
                     THEN 1 ELSE 0)
          /\ ~IsNotify' =>
                Count(logged', ExecutedEntries \cup RejectionEntries
                                  \cup ProfitEntries) = 0]_vars
    /\ []((IsNotify /\ called.status \in Rejections /\ len < buflen)
             => BarEnabled)

\* A Completed notification whose fill closed the trade.
C16_Witness ==
    /\ IsNotify /\ called.status = "Completed"
    /\ logged = <<"SELL EXECUTED", "OPERATION PROFIT">>

\* C17: no stuck waiting state.  With a broker that goes on delivering
\* terminal statuses for open orders, every state in which the pending
\* marker is set (AwaitingEntry or AwaitingExit) is eventually followed by
\* one in which it is None.
C17_NoStuckWaiting == (order # None) ~> (order = None)

\* A terminal notification for the tracked order of an exit has just
\* cleared the marker.
C17_Witness ==
    /\ IsNotify /\ called.status \in Terminal /\ order = None
    /\ phase = "Closed" \/ exitrec = "Rejected"

\* C18: no short position.  The size held of each instrument is never
\* negative; a call of next() emits a sell of X only when the size of X is
\* positive, and no two sells of the same X are open at once.
C18_NoShort ==
    /\ \A d \in Datas : position[d] >= 0
    /\ IsNext => \A i \in 1..Len(emitted) :
                    ~emitted[i].isbuy => position[emitted[i].data] > 0
    /\ \A o1 \in orders, o2 \in orders :
          (~o1.isbuy /\ ~o2.isbuy /\ o1.data = o2.data) => o1 = o2

\* The states InitHeld starts from, as the run of main() reaches them.
HeldReached ==
    /\ len = MinPeriod /\ position = [d \in Datas |-> IF d = VTI THEN stake ELSE 0]
    /\ orders = {} /\ lastref = 1 /\ order = None /\ phase = "Holding"
    /\ called = [op |-> "notify_order", status |-> "Completed", ref |-> 1]
    /\ emitted = <<>> /\ logged = <<"BUY EXECUTED">>
    /\ recov = "Off" /\ exitrec = "Off" /\ exits = {}
    /\ buyprice \in Prices /\ buycomm = Comm(buyprice) /\ bar_executed = len
    /\ signal[VTI] = "BullishCross" /\ fast[VTI] > slow[VTI]
====
